---------------------------- MODULE Spec2Model ----------------------------
(***************************************************************************)
(* pg2any: the Hibernate and ProtoBuf generators.                          *)
(*                                                                         *)
(* Go strings are modelled as sequences of one-character strings, so that  *)
(* the naming conversions, the type mappers and the file names are         *)
(* computed character by character as the code computes them.              *)
(***************************************************************************)
EXTENDS Integers, Sequences, FiniteSets, TLC

(***************************************************************************)
(* Bounds of the model.                                                    *)
(***************************************************************************)
MaxTables == 2
MaxTypes == 2
MaxCols == 2
MaxClock == 1

(***************************************************************************)
(* Characters and the strings package.                                     *)
(***************************************************************************)
LowerChars == <<"a","b","c","d","e","f","g","h","i","j","k","l","m","n","o","p","q","r","s","t","u","v","w","x","y","z">>
UpperChars == <<"A","B","C","D","E","F","G","H","I","J","K","L","M","N","O","P","Q","R","S","T","U","V","W","X","Y","Z">>
DigitChars == <<"0","1","2","3","4","5","6","7","8","9">>

Range(s) == {s[i] : i \in DOMAIN s}

IndexIn(c, s) == CHOOSE i \in DOMAIN s : s[i] = c

IsLower(c) == c \in Range(LowerChars)
IsUpper(c) == c \in Range(UpperChars)
IsDigit(c) == c \in Range(DigitChars)

ToUpperCh(c) == IF IsLower(c) THEN UpperChars[IndexIn(c, LowerChars)] ELSE c
ToLowerCh(c) == IF IsUpper(c) THEN LowerChars[IndexIn(c, UpperChars)] ELSE c

\* strings.HasPrefix
HasPrefix(s, p) == Len(p) <= Len(s) /\ SubSeq(s, 1, Len(p)) = p

\* strings.Index, 1-based; 0 when sub does not occur in s
Index(s, sub) ==
  LET hits == {i \in 1..(Len(s) - Len(sub) + 1) : SubSeq(s, i, i + Len(sub) - 1) = sub}
  IN IF hits = {} THEN 0 ELSE CHOOSE i \in hits : \A j \in hits : i <= j

\* strings.Contains
Contains(s, sub) == Index(s, sub) # 0

\* strings.Replace(s, old, "", 1): the first occurrence of old removed
RemoveFirst(s, old) ==
  LET i == Index(s, old)
  IN IF i = 0 THEN s
     ELSE SubSeq(s, 1, i - 1) \o SubSeq(s, i + Len(old), Len(s))

\* strings.Replace(s, old, "", -1): every occurrence of old removed
RECURSIVE RemoveAll(_, _)
RemoveAll(s, old) ==
  IF Index(s, old) = 0 THEN s ELSE RemoveAll(RemoveFirst(s, old), old)

\* strings.Join
RECURSIVE Join(_, _)
Join(ss, sep) ==
  IF ss = <<>> THEN <<>>
  ELSE IF Len(ss) = 1 THEN ss[1]
  ELSE ss[1] \o sep \o Join(Tail(ss), sep)

\* strings.Title: the first letter of every word upper-cased; a word starts
\* after any character that is not a letter, a digit or an underscore
IsSeparator(c) == ~(IsLower(c) \/ IsUpper(c) \/ IsDigit(c) \/ c = "_")

Title(s) ==
  [i \in DOMAIN s |->
     IF i = 1 \/ IsSeparator(s[i - 1]) THEN ToUpperCh(s[i]) ELSE s[i]]

\* fmt's %d of a non-negative int
RECURSIVE Itoa(_)
Itoa(n) ==
  IF n < 10 THEN <<DigitChars[n + 1]>>
  ELSE Itoa(n \div 10) \o <<DigitChars[(n % 10) + 1]>>

(***************************************************************************)
(* Naming normalizer (spec 4.1): split on underscore into non-empty        *)
(* segments, then re-assemble.                                             *)
(***************************************************************************)
RECURSIVE Camel(_, _)
Camel(s, segStart) ==
  IF s = <<>> THEN <<>>
  ELSE IF Head(s) = "_" THEN Camel(Tail(s), TRUE)
  ELSE <<IF segStart THEN ToUpperCh(Head(s)) ELSE Head(s)>> \o Camel(Tail(s), FALSE)

SnakeToUpperCamel(s) == Camel(s, TRUE)

SnakeToLowerCamel(s) ==
  LET u == SnakeToUpperCamel(s)
  IN IF u = <<>> THEN u ELSE <<ToLowerCh(Head(u))>> \o Tail(u)

RECURSIVE Segments(_, _)
Segments(s, cur) ==
  IF s = <<>> THEN (IF cur = <<>> THEN <<>> ELSE <<cur>>)
  ELSE IF Head(s) = "_"
       THEN (IF cur = <<>> THEN <<>> ELSE <<cur>>) \o Segments(Tail(s), <<>>)
  ELSE Segments(Tail(s), Append(cur, Head(s)))

SnakeToUpper(s) ==
  LET segs == Segments(s, <<>>)
  IN Join([i \in DOMAIN segs |-> [j \in DOMAIN segs[i] |-> ToUpperCh(segs[i][j])]], <<"_">>)

\* isNumber: the literal parses as an integer
isNumber(s) == s # <<>> /\ \A i \in DOMAIN s : IsDigit(s[i])

\* contains(list, s): exact-match membership in a []string
contains(list, s) == \E i \in DOMAIN list : list[i] = s

(***************************************************************************)
(* State.  gen, ins, config and template are the generator's fields; the   *)
(* rest is the position and the effects of one Build.                      *)
(***************************************************************************)
VARIABLES
  gen,        \* "hibernate" or "protobuf": which generator runs
  ins,        \* gen.ins: the InspectResult, [Tables, Types]
  config,     \* gen.config: [PackageName, IgnoreTables, NotInsertableColumns, NotUpdatableColumns]
  silent,     \* the names of the loaded templates whose execution writes no byte
  clock,      \* what time.Now() returns, in seconds
  view,       \* the result of the last view-builder applied (SpecView)
  pc,         \* Build's position: "start", "loop", "buildTable", ..., then
              \* "returned", "exited" (log.Fatal) or "panicked" (template.Must)
  ti,         \* index of the table the table loop is at
  yi,         \* index of the type the type loop is at
  file,       \* Build's local file
  auxFile,    \* Build's local metaFile (table loop) or utFile (type loop)
  deferred,   \* the handles with a deferred Close, in the order deferred
  closed,     \* the handles Close was called on, in the order called
  disk,       \* the output directory: path -> content
  events,     \* history: every create, render and accessor step of this Build
  err,        \* what Build returned
  rendered,   \* history: the view models handed to ExecuteTemplate in this Build
  run,        \* 1 in the first Build, 2 in the second
  prev        \* [err, rendered] of the first Build, in the second

(***************************************************************************)
(* Schema model lookup (spec 3): case-sensitive exact match on Types.      *)
(***************************************************************************)
FindTypeFound(name) == \E i \in DOMAIN ins.Types : ins.Types[i].Name = name

FindType(name) ==
  LET i == CHOOSE j \in DOMAIN ins.Types :
             /\ ins.Types[j].Name = name
             /\ \A k \in DOMAIN ins.Types : ins.Types[k].Name = name => j <= k
  IN ins.Types[i]

(***************************************************************************)
(* Hibernate: type mapper.                                                 *)
(***************************************************************************)
HibernateEnumExists(typeName) ==
  \E i \in DOMAIN ins.Types : ins.Types[i].Name = typeName

HibernateConvertType(col) ==
  IF Contains(col.DataType, <<"n","u","m","e","r","i","c","(">>) THEN <<"B","i","g","D","e","c","i","m","a","l">>
  ELSE
    LET t == RemoveFirst(col.DataType, <<"[","]">>)
    IN CASE t = <<"t","e","x","t">> -> <<"S","t","r","i","n","g">>
         [] t \in {<<"i","n","t">>, <<"i","n","t","e","g","e","r">>} -> <<"I","n","t","e","g","e","r">>
         [] t = <<"f","l","o","a","t">> -> <<"F","l","o","a","t">>
         [] t = <<"d","o","u","b","l","e">> -> <<"d","o","u","b","l","e">>
         [] t = <<"b","i","g","i","n","t">> -> <<"L","o","n","g">>
         [] t = <<"s","e","r","i","a","l">> -> <<"I","n","t","e","g","e","r">>
         [] t = <<"b","i","g","s","e","r","i","a","l">> -> <<"L","o","n","g">>
         [] t = <<"u","u","i","d">> -> <<"U","U","I","D">>
         [] t = <<"b","y","t","e","a">> -> <<"b","y","t","e","[","]">>
         [] t = <<"n","u","m","e","r","i","c">> -> <<"B","i","g","D","e","c","i","m","a","l">>
         [] t = <<"d","a","t","e">> -> <<"L","o","c","a","l","D","a","t","e">>
         [] t \in {<<"j","s","o","n">>, <<"j","s","o","n","b">>} -> <<"M","a","p","<","S","t","r","i","n","g",","," ","S","t","r","i","n","g",">">>
         [] t = <<"t","i","m","e","s","t","a","m","p">> -> <<"T","i","m","e","s","t","a","m","p">>
         [] t \in {<<"t","i","m","e","s","t","a","m","p"," ","w","i","t","h"," ","t","i","m","e"," ","z","o","n","e">>, <<"t","i","m","e","s","t","a","m","p"," ","w","i","t","h","o","u","t"," ","t","i","m","e"," ","z","o","n","e">>} -> <<"O","f","f","s","e","t","D","a","t","e","T","i","m","e">>
         [] t = <<"b","o","o","l","e","a","n">> -> <<"b","o","o","l","e","a","n">>
         [] OTHER ->
              IF HasPrefix(t, <<"n","u","m","e","r","i","c">>) THEN <<"B","i","g","D","e","c","i","m","a","l">>
              ELSE IF HasPrefix(t, <<"c","h","a","r","a","c","t","e","r">>) THEN <<"S","t","r","i","n","g">>
              ELSE IF FindTypeFound(t) THEN SnakeToUpperCamel(FindType(t).Name)
              ELSE col.DataType

\* t, wrapped as the getter, the setter and members wrap it
HibernateMemberType(col) ==
  LET t == HibernateConvertType(col)
  IN IF col.Array THEN <<"L","i","s","t","<">> \o t \o <<">">> ELSE t

(***************************************************************************)
(* Hibernate: member, metamodel and accessor builders.                     *)
(***************************************************************************)
RECURSIVE HibernateMembersLoop(_, _)
HibernateMembersLoop(cols, ret) ==
  IF cols = <<>> THEN ret
  ELSE LET col == Head(cols)
           m == [Name |-> SnakeToLowerCamel(col.Name),
                 Type |-> HibernateMemberType(col),
                 Comment |-> RemoveAll(col.Comment, <<"\n">>)]
       IN HibernateMembersLoop(Tail(cols), Append(ret, m))

HibernateMembers(table) == HibernateMembersLoop(table.Columns, <<>>)

RECURSIVE HibernateMetamodelLoop(_, _, _)
HibernateMetamodelLoop(table, cols, ret) ==
  IF cols = <<>> THEN ret
  ELSE LET col == Head(cols)
           t == HibernateConvertType(col)
           isMap == HasPrefix(t, <<"M","a","p">>)
           attr == IF isMap THEN <<"M","a","p","A","t","t","r","i","b","u","t","e">>
                   ELSE IF col.Array THEN <<"L","i","s","t","A","t","t","r","i","b","u","t","e">>
                   ELSE <<"S","i","n","g","u","l","a","r","A","t","t","r","i","b","u","t","e">>
           m == [Attr |-> attr,
                 ClsName |-> SnakeToUpperCamel(table.Name),
                 Name |-> SnakeToLowerCamel(col.Name),
                 Type |-> Title(IF isMap THEN <<"S","t","r","i","n","g",","," ","S","t","r","i","n","g">> ELSE t)]
       IN HibernateMetamodelLoop(table, Tail(cols), Append(ret, m))

HibernateMetamodel(table) == HibernateMetamodelLoop(table, table.Columns, <<>>)

HibernateAnotations(col) ==
  LET columnArgs ==
        <<<<"n","a","m","e","=","\"">> \o col.Name \o <<"\"">>,
          <<"n","u","l","l","a","b","l","e","=">> \o (IF col.NotNull THEN <<"f","a","l","s","e">> ELSE <<"t","r","u","e">>)>>
        \o (IF contains(config.NotInsertableColumns, col.Name)
            THEN <<<<"i","n","s","e","r","t","a","b","l","e","=","f","a","l","s","e">>>> ELSE <<>>)
        \o (IF contains(config.NotUpdatableColumns, col.Name)
            THEN <<<<"u","p","d","a","t","a","b","l","e","=","f","a","l","s","e">>>> ELSE <<>>)
  IN (IF col.PrimaryKey THEN <<<<"@","I","d">>>> ELSE <<>>)
     \o (IF col.Unique THEN <<<<"@","U","n","i","q","u","e","C","o","n","s","t","r","a","i","n","t">>>> ELSE <<>>)
     \o (IF col.Serial THEN <<<<"@","G","e","n","e","r","a","t","e","d","V","a","l","u","e","(","s","t","r","a","t","e","g","y","=","G","e","n","e","r","a","t","i","o","n","T","y","p","e",".","I","D","E","N","T","I","T","Y",")">>>> ELSE <<>>)
     \o (IF HibernateEnumExists(col.DataType)
         THEN <<<<"@","T","y","p","e","(","t","y","p","e"," ","="," ","\"">> \o config.PackageName \o <<".">>
                \o SnakeToUpperCamel(col.DataType) \o <<"U","s","e","r","T","y","p","e","\"",")">>>>
         ELSE <<>>)
     \o (IF col.DataType \in {<<"j","s","o","n">>, <<"j","s","o","n","b">>}
         THEN <<<<"@","T","y","p","e","(","t","y","p","e"," ","="," ","\"","J","s","o","n","U","s","e","r","T","y","p","e","\"",")">>>> ELSE <<>>)
     \o (IF col.Array
         THEN <<<<"@","T","y","p","e","(","t","y","p","e"," ","="," ","\"">> \o Title(HibernateConvertType(col))
                \o <<"A","r","r","a","y","U","s","e","r","T","y","p","e","\"",")">>>>
         ELSE <<>>)
     \o <<<<"@","C","o","l","u","m","n","(">> \o Join(columnArgs, <<","," ">>) \o <<")">>>>

\* The text a template renders is a function of the template and its data:
\* a rendered getter or setter is modelled as that pair.
HibernateGetter(col) ==
  [tmpl |-> "getter",
   data |-> [func |-> SnakeToUpperCamel(col.Name),
             name |-> SnakeToLowerCamel(col.Name),
             type |-> HibernateMemberType(col),
             anotations |-> HibernateAnotations(col)]]

HibernateSetter(col) ==
  [tmpl |-> "setter",
   data |-> [func |-> SnakeToUpperCamel(col.Name),
             name |-> SnakeToLowerCamel(col.Name),
             type |-> HibernateMemberType(col),
             scope |-> IF \/ contains(config.NotInsertableColumns, col.Name)
                          \/ contains(config.NotUpdatableColumns, col.Name)
                       THEN "private" ELSE "public",
             constraint |-> IF col.Constraint = <<"c">>
                            THEN <<" "," "," "," ","/","/"," ">> \o col.ConstraintSrc ELSE <<>>]]

\* accessor: failAt = 0 when every getter and setter renders, k > 0 when the
\* k-th render (getter, setter, getter, ...) fails; then log.Fatal ends the
\* process and nothing is returned.
RECURSIVE HibernateAccessorLoop(_, _, _, _)
HibernateAccessorLoop(cols, ret, n, failAt) ==
  IF cols = <<>> THEN [fatal |-> FALSE, ret |-> ret]
  ELSE IF failAt = n + 1 \/ failAt = n + 2 THEN [fatal |-> TRUE, ret |-> <<>>]
  ELSE HibernateAccessorLoop(Tail(cols),
         ret \o <<HibernateGetter(Head(cols)), HibernateSetter(Head(cols))>>,
         n + 2, failAt)

HibernateAccessor(table, failAt) == HibernateAccessorLoop(table.Columns, <<>>, 0, failAt)

(***************************************************************************)
(* Hibernate: view models handed to ExecuteTemplate.                       *)
(***************************************************************************)
HibernateTableView(table, accessor) ==
  [tmpl |-> "class",
   data |-> [package_name |-> config.PackageName,
             now |-> clock,
             table |-> table,
             name |-> SnakeToUpperCamel(table.Name),
             member |-> HibernateMembers(table),
             accessor |-> accessor]]

HibernateMetamodelView(table) ==
  [tmpl |-> "metamodel",
   data |-> [package_name |-> config.PackageName,
             name |-> SnakeToUpperCamel(table.Name),
             member |-> HibernateMetamodel(table)]]

RECURSIVE HibernateEnumLoop(_, _)
HibernateEnumLoop(vals, mem) ==
  IF vals = <<>> THEN mem
  ELSE LET val == Head(vals)
           m == IF isNumber(val)
                THEN <<"V","A","L","U","E","_">> \o SnakeToUpper(val) \o <<"(">> \o val \o <<")">>
                ELSE SnakeToUpper(val) \o <<"(","\"">> \o val \o <<"\"",")">>
       IN HibernateEnumLoop(Tail(vals), Append(mem, m))

HibernateEnumMem(typ) == HibernateEnumLoop(typ.Values, <<>>)

HibernateEnumDt(typ) ==
  IF \E i \in DOMAIN typ.Values : isNumber(typ.Values[i]) THEN "Integer" ELSE "String"

\* buildType's two view models: "enum" and "enum_usertype"
HibernateBuildType(typ) ==
  LET members == Join(HibernateEnumMem(typ), <<","," ">>) \o <<";">>
      common == [package_name |-> config.PackageName,
                 now |-> clock,
                 name |-> SnakeToUpperCamel(typ.Name),
                 type |-> typ,
                 dt |-> HibernateEnumDt(typ),
                 members |-> members]
  IN <<[tmpl |-> "enum", data |-> common],
       [tmpl |-> "enum_usertype",
        data |-> [package_name |-> common.package_name, now |-> common.now,
                  name |-> common.name, snake |-> typ.Name, type |-> typ,
                  dt |-> common.dt, members |-> members]]>>

(***************************************************************************)
(* ProtoBuf: type mapper, member builder, view models.                     *)
(***************************************************************************)
ProtoBufConvertType(col) ==
  LET t == col.DataType
  IN CASE t = <<"t","e","x","t">> -> <<"s","t","r","i","n","g">>
       [] t = <<"i","n","t">> -> <<"i","n","t","3","2">>
       [] t = <<"f","l","o","a","t">> -> <<"f","l","o","a","t">>
       [] t = <<"d","o","u","b","l","e">> -> <<"d","o","u","b","l","e">>
       [] t = <<"b","i","g","i","n","t">> -> <<"i","n","t","6","4">>
       [] t = <<"u","u","i","d">> -> <<"s","t","r","i","n","g">>
       [] t = <<"n","u","m","e","r","i","c">> -> <<"i","n","t","6","4">>
       [] t \in {<<"t","i","m","e","s","t","a","m","p">>, <<"d","a","t","e">>, <<"t","i","m","e","s","t","a","m","p"," ","w","i","t","h"," ","t","i","m","e"," ","z","o","n","e">>} -> <<"s","t","r","i","n","g">>
       [] t = <<"b","o","o","l","e","a","n">> -> <<"b","o","o","l">>
       [] OTHER ->
            IF FindTypeFound(t)
            THEN config.PackageName \o <<".">> \o SnakeToUpperCamel(FindType(t).Name)
            ELSE col.DataType

RECURSIVE ProtoBufMembersLoop(_, _, _)
ProtoBufMembersLoop(cols, i, ret) ==
  IF cols = <<>> THEN ret
  ELSE LET col == Head(cols)
           m == [Constraint |-> <<>>,
                 Name |-> SnakeToLowerCamel(col.Name),
                 Type |-> ProtoBufConvertType(col),
                 Comment |-> RemoveAll(col.Comment, <<"\n">>),
                 Index |-> i + 1]
       IN ProtoBufMembersLoop(Tail(cols), i + 1, Append(ret, m))

\* field numbers counted from 2
ProtoBufMembersOffByOne(table) == ProtoBufMembersLoop(table.Columns, 1, <<>>)

ProtoBufMembers(table) == ProtoBufMembersLoop(table.Columns, 0, <<>>)

ProtoBufTableView(table) ==
  [tmpl |-> "message",
   data |-> [package_name |-> config.PackageName,
             java_package |-> config.JavaPackage,
             now |-> clock,
             comment |-> table.Comment,
             table |-> table,
             name |-> SnakeToUpperCamel(table.Name),
             member |-> ProtoBufMembers(table)]]

RECURSIVE ProtoBufValuesLoop(_, _, _, _)
ProtoBufValuesLoop(name, vals, i, vs) ==
  IF vals = <<>> THEN vs
  ELSE LET val == Head(vals)
           v == IF isNumber(val)
                THEN name \o <<"_","V","A","L","U","E","_">> \o SnakeToUpper(val) \o <<" ","="," ">> \o Itoa(i) \o <<";">>
                ELSE name \o <<"_">> \o SnakeToUpper(val) \o <<" ","="," ">> \o Itoa(i) \o <<";">>
       IN ProtoBufValuesLoop(name, Tail(vals), i + 1, Append(vs, v))

\* ordinals counted from 1
ProtoBufValuesFromOne(typ) == ProtoBufValuesLoop(SnakeToUpper(typ.Name), typ.Values, 1, <<>>)

ProtoBufValues(typ) == ProtoBufValuesLoop(SnakeToUpper(typ.Name), typ.Values, 0, <<>>)

RECURSIVE ProtoBufTypeMembersLoop(_, _)
ProtoBufTypeMembersLoop(types, members) ==
  IF types = <<>> THEN members
  ELSE LET typ == Head(types)
           m == [Name |-> SnakeToUpperCamel(typ.Name),
                 Comment |-> typ.Comment,
                 Values |-> <<" "," ">> \o Join(ProtoBufValues(typ), <<"\n", " ", " ">>)]
       IN ProtoBufTypeMembersLoop(Tail(types), Append(members, m))

ProtoBufBuildType(types) ==
  [tmpl |-> "enum",
   data |-> [package_name |-> config.PackageName,
             java_package |-> config.JavaPackage,
             now |-> clock,
             members |-> ProtoBufTypeMembersLoop(types, <<>>)]]

(***************************************************************************)
(* Inputs: the schemas and configurations the runs are checked on.         *)
(***************************************************************************)
Col(name, dataType, array) ==
  [Name |-> name, DataType |-> dataType, Array |-> array,
   PrimaryKey |-> FALSE, Unique |-> FALSE, NotNull |-> FALSE, Serial |-> FALSE,
   Comment |-> <<>>, Constraint |-> <<>>, ConstraintSrc |-> <<>>]

ColId ==
  [Col(<<"i","d">>, <<"s","e","r","i","a","l">>, FALSE) EXCEPT
     !.PrimaryKey = TRUE, !.NotNull = TRUE, !.Serial = TRUE,
     !.Comment = <<"k", "e", "y", "\n">>]

ColCreatedAt ==
  [Col(<<"c","r","e","a","t","e","d","_","a","t">>, <<"t","i","m","e","s","t","a","m","p"," ","w","i","t","h"," ","t","i","m","e"," ","z","o","n","e">>, FALSE) EXCEPT
     !.NotNull = TRUE, !.Constraint = <<"c">>, !.ConstraintSrc = <<"C","H","E","C","K"," ","(","t","r","u","e",")">>]

ColumnPool ==
  { ColId,
    ColCreatedAt,
    Col(<<"t","a","g","s">>, <<"t","e","x","t","[","]">>, TRUE),
    Col(<<"p","r","i","c","e">>, <<"n","u","m","e","r","i","c","(","1","0",",","2",")">>, FALSE),
    Col(<<"a","m","o","u","n","t","s">>, <<"n","u","m","e","r","i","c","(","1","0",",","2",")","[","]">>, TRUE),
    Col(<<"s","t","a","t","u","s">>, <<"s","t","a","t","u","s">>, FALSE),
    Col(<<"h","i","s","t","o","r","y">>, <<"s","t","a","t","u","s","[","]">>, TRUE),
    Col(<<"s","h","a","p","e">>, <<"p","o","l","y","g","o","n","[","]">>, TRUE),
    Col(<<"d","a","t","a">>, <<"j","s","o","n","b">>, FALSE) }

TypeStatus == [Name |-> <<"s","t","a","t","u","s">>, Comment |-> <<>>, Values |-> <<<<"1">>, <<"2">>, <<"a","c","t","i","v","e">>>>]
TypeUserKind == [Name |-> <<"u","s","e","r","_","k","i","n","d">>, Comment |-> <<>>, Values |-> <<<<"o","n","_","h","o","l","d">>, <<"1","0">>>>]
TypeColor == [Name |-> <<"c","o","l","o","r">>, Comment |-> <<>>, Values |-> <<<<"r","e","d">>, <<"g","r","e","e","n">>>>]
TypePool == {TypeStatus, TypeUserKind, TypeColor}
TypeStatusUserType ==
  [Name |-> <<"s","t","a","t","u","s","_","u","s","e","r","_","t","y","p","e">>, Comment |-> <<>>, Values |-> <<<<"o","n">>, <<"o","f","f">>>>]
\* the enum types of the schemas Build runs on
BuildTypePool == {TypeStatus, TypeStatusUserType}

\* the sequences of at most n pairwise different elements of S
InjSeqs(S, n) ==
  UNION {{q \in [1..k -> S] : \A i, j \in 1..k : q[i] = q[j] => i = j} : k \in 0..n}

SampleConfig(ignore) ==
  [PackageName |-> <<"e","x">>, JavaPackage |-> <<"c","o","m",".","e","x">>,
   IgnoreTables |-> ignore,
   NotInsertableColumns |-> <<<<"c","r","e","a","t","e","d","_","a","t">>>>,
   NotUpdatableColumns |-> <<<<"c","r","e","a","t","e","d","_","a","t">>>>]

TableUser ==
  [Name |-> <<"u","s","e","r">>, Comment |-> <<"u","s","e","r","s">>, Columns |-> <<ColId, ColCreatedAt>>]
TableUserTrailing ==
  [Name |-> <<"u","s","e","r","_">>, Comment |-> <<>>, Columns |-> <<ColId>>]
TableFlyway ==
  [Name |-> <<"f","l","y","w","a","y","_","s","c","h","e","m","a","_","h","i","s","t","o","r","y">>, Comment |-> <<>>, Columns |-> <<>>]
TableStatusUserType ==
  [Name |-> <<"s","t","a","t","u","s","_","u","s","e","r","_","t","y","p","e">>, Comment |-> <<>>,
   Columns |-> <<Col(<<"s","t","a","t","u","s">>, <<"s","t","a","t","u","s">>, FALSE)>>]
TablePool == {TableUser, TableUserTrailing, TableFlyway, TableStatusUserType}

NoFile == [id |-> 0, path |-> <<>>, ok |-> FALSE]
NoError == [state |-> "none"]
NilError == [state |-> "nil"]

inputs == <<gen, ins, config, silent>>
buildVars == <<pc, ti, yi, file, auxFile, deferred, closed, disk, events, err, rendered, run, prev>>
vars == <<gen, ins, config, silent, clock, view, pc, ti, yi, file, auxFile,
          deferred, closed, disk, events, err, rendered, run, prev>>

(***************************************************************************)
(* Build: what its statements do.                                          *)
(***************************************************************************)
\* filepath.Join(filePathJoinRoot(gen.root, gen.config.Output), fileName)
OutputPath(fileName) == <<"o","u","t","/">> \o fileName

HibernateTableFileName(table) == SnakeToUpperCamel(table.Name) \o <<".","j","a","v","a">>
\* a metamodel file named as the entity file is
HibernateMetaFileNameAsEntity(table) == SnakeToUpperCamel(table.Name) \o <<".","j","a","v","a">>
HibernateMetaFileName(table) == SnakeToUpperCamel(table.Name) \o <<"_",".","j","a","v","a">>
HibernateTypeFileName(typ) == SnakeToUpperCamel(typ.Name) \o <<".","j","a","v","a">>
HibernateUserTypeFileName(typ) == SnakeToUpperCamel(typ.Name) \o <<"U","s","e","r","T","y","p","e",".","j","a","v","a">>
ProtoBufTableFileName(table) == SnakeToUpperCamel(table.Name) \o <<".","p","r","o","t","o">>
ProtoBufEnumFileName == <<"e","n","u","m",".","p","r","o","t","o">>

\* errors.Wrap(cause, msg)
Wrap(cause, msg) == [state |-> "error", msg |-> msg, cause |-> cause]

\* the *PathError of a failed os.Create
OpenError(path) == [kind |-> "open", path |-> path]
\* the error of a template whose execution fails
ExecError(tmpl) == [kind |-> "exec", tmpl |-> tmpl]
\* os.ErrInvalid: what Write and Close return on a nil *os.File
InvalidError == [kind |-> "invalid"]

\* the handle os.Create returns: a nil *os.File when it fails
Handle(path, ok) == [id |-> Len(deferred) + 1, path |-> path, ok |-> ok]

\* the directory after os.Create(path) succeeded: created or truncated
Created(path) ==
  [p \in DOMAIN disk \cup {path} |-> IF p = path THEN "empty" ELSE disk[p]]

\* the directory after a template was executed on h: ok is whether the
\* execution succeeded, tmpl the template
Written(d, h, tmpl, ok) ==
  IF ~h.ok \/ tmpl \in silent THEN d
  ELSE [d EXCEPT ![h.path] = IF ok THEN "full" ELSE "partial"]

\* ExecuteTemplate(h, tmpl, ...): execFails is whether the template itself
\* fails; a template that writes fails on a nil file with os.ErrInvalid
RenderOk(h, tmpl, execFails) == ~execFails /\ (h.ok \/ tmpl \in silent)

RenderError(h, tmpl, execFails) ==
  IF execFails THEN ExecError(tmpl) ELSE InvalidError

CreateEvent(art, h) == [op |-> "create", art |-> art, handle |-> h, ok |-> h.ok]
RenderEvent(art, h, ok) == [op |-> "render", art |-> art, handle |-> h, ok |-> ok]
AccessorEvent(art) == [op |-> "accessor", art |-> art, handle |-> NoFile, ok |-> FALSE]

Reverse(s) == [i \in DOMAIN s |-> s[Len(s) + 1 - i]]

\* return e: the deferred Closes d run, last deferred first
Return(e, d) ==
  /\ pc' = "returned"
  /\ err' = e
  /\ closed' = Reverse(d)

Continue(next) ==
  /\ pc' = next
  /\ UNCHANGED <<err, closed>>

AtTables == pc = "loop" /\ ti <= Len(ins.Tables)
AtTypes == pc = "loop" /\ ti > Len(ins.Tables)

(***************************************************************************)
(* Hibernate.Build                                                         *)
(***************************************************************************)
\* template.Must(template.ParseGlob(tdir)): panics when the templates do not load
HibernateLoadTemplates ==
  /\ gen = "hibernate" /\ pc = "start"
  /\ \E ok \in BOOLEAN : pc' = IF ok THEN "loop" ELSE "panicked"
  /\ UNCHANGED <<inputs, clock, view, ti, yi, file, auxFile, deferred, closed,
                 disk, events, err, rendered, run, prev>>

HibernateSkipTable ==
  /\ gen = "hibernate" /\ AtTables
  /\ contains(config.IgnoreTables, ins.Tables[ti].Name)
  /\ ti' = ti + 1
  /\ UNCHANGED <<inputs, clock, view, pc, yi, file, auxFile, deferred, closed,
                 disk, events, err, rendered, run, prev>>

HibernateCreateTableFile ==
  /\ gen = "hibernate" /\ AtTables
  /\ ~contains(config.IgnoreTables, ins.Tables[ti].Name)
  /\ \E ok \in BOOLEAN :
       LET path == OutputPath(HibernateTableFileName(ins.Tables[ti]))
           h == Handle(path, ok)
       IN /\ file' = h
          /\ disk' = IF ok THEN Created(path) ELSE disk
          /\ deferred' = Append(deferred, h)
          /\ events' = Append(events, CreateEvent([kind |-> "table", idx |-> ti], h))
          /\ IF ok THEN Continue("buildTable")
             ELSE Return(Wrap(OpenError(path), <<"b","u","i","l","d"," ","c","r","e","a","t","e"," ","f","i","l","e">>), Append(deferred, h))
  /\ UNCHANGED <<inputs, clock, view, ti, yi, auxFile, rendered, run, prev>>

HibernateBuildTable ==
  /\ gen = "hibernate" /\ pc = "buildTable"
  /\ \E failAt \in 0..(2 * Len(ins.Tables[ti].Columns)), execFails \in BOOLEAN :
       LET table == ins.Tables[ti]
           art == [kind |-> "table", idx |-> ti]
           acc == HibernateAccessor(table, failAt)
           ok == RenderOk(file, "class", execFails)
       IN IF acc.fatal
          THEN \* log.Fatal: the process exits, no deferred Close runs
               /\ pc' = "exited"
               /\ events' = Append(events, AccessorEvent(art))
               /\ UNCHANGED <<err, closed, disk, rendered>>
          ELSE /\ rendered' = Append(rendered, HibernateTableView(table, acc.ret))
               /\ events' = Append(events, RenderEvent(art, file, ok))
               /\ disk' = Written(disk, file, "class", ok)
               /\ IF ok THEN Continue("metaFile")
                  ELSE Return(Wrap(RenderError(file, "class", execFails), <<"b","u","i","l","d"," ","w","r","i","t","e"," ","t","a","b","l","e">>), deferred)
  /\ UNCHANGED <<inputs, clock, view, ti, yi, file, auxFile, deferred, run, prev>>

HibernateCreateMetaFile ==
  /\ gen = "hibernate" /\ pc = "metaFile"
  /\ \E ok \in BOOLEAN :
       LET path == OutputPath(HibernateMetaFileName(ins.Tables[ti]))
           h == Handle(path, ok)
       IN /\ auxFile' = h
          /\ disk' = IF ok THEN Created(path) ELSE disk
          /\ deferred' = Append(deferred, h)
          /\ events' = Append(events, CreateEvent([kind |-> "meta", idx |-> ti], h))
          \* err is not looked at
          /\ Continue("buildMetamodel")
  /\ UNCHANGED <<inputs, clock, view, ti, yi, file, rendered, run, prev>>

HibernateBuildMetamodel ==
  /\ gen = "hibernate" /\ pc = "buildMetamodel"
  /\ \E execFails \in BOOLEAN :
       LET ok == RenderOk(auxFile, "metamodel", execFails)
       IN /\ rendered' = Append(rendered, HibernateMetamodelView(ins.Tables[ti]))
          /\ events' = Append(events, RenderEvent([kind |-> "meta", idx |-> ti], auxFile, ok))
          /\ disk' = Written(disk, auxFile, "metamodel", ok)
          /\ IF ok THEN Continue("loop") /\ ti' = ti + 1
             ELSE /\ Return(Wrap(RenderError(auxFile, "metamodel", execFails),
                                 <<"b","u","i","l","d"," ","w","r","i","t","e"," ","m","e","t","a","m","o","d","e","l">>), deferred)
                  /\ ti' = ti
  /\ UNCHANGED <<inputs, clock, view, yi, file, auxFile, deferred, run, prev>>

HibernateCreateTypeFile ==
  /\ gen = "hibernate" /\ AtTypes /\ yi <= Len(ins.Types)
  /\ \E ok \in BOOLEAN :
       LET path == OutputPath(HibernateTypeFileName(ins.Types[yi]))
           h == Handle(path, ok)
       IN /\ file' = h
          /\ disk' = IF ok THEN Created(path) ELSE disk
          /\ deferred' = Append(deferred, h)
          /\ events' = Append(events, CreateEvent([kind |-> "enum", idx |-> yi], h))
          /\ IF ok THEN Continue("utFile")
             ELSE Return(Wrap(OpenError(path), <<"b","u","i","l","d"," ","c","r","e","a","t","e"," ","f","i","l","e">>), Append(deferred, h))
  /\ UNCHANGED <<inputs, clock, view, ti, yi, auxFile, rendered, run, prev>>

HibernateCreateUserTypeFile ==
  /\ gen = "hibernate" /\ pc = "utFile"
  /\ \E ok \in BOOLEAN :
       LET path == OutputPath(HibernateUserTypeFileName(ins.Types[yi]))
           h == Handle(path, ok)
       IN /\ auxFile' = h
          /\ disk' = IF ok THEN Created(path) ELSE disk
          /\ deferred' = Append(deferred, h)
          /\ events' = Append(events, CreateEvent([kind |-> "usertype", idx |-> yi], h))
          /\ IF ok THEN Continue("buildType")
             ELSE Return(Wrap(OpenError(path), <<"b","u","i","l","d"," ","u","s","e","r","t","y","p","e"," ","f","i","l","e">>), Append(deferred, h))
  /\ UNCHANGED <<inputs, clock, view, ti, yi, file, rendered, run, prev>>

HibernateBuildTypeStep ==
  /\ gen = "hibernate" /\ pc = "buildType"
  /\ \E enumFails \in BOOLEAN, utFails \in BOOLEAN :
       LET views == HibernateBuildType(ins.Types[yi])
           art == [kind |-> "enum", idx |-> yi]
           utArt == [kind |-> "usertype", idx |-> yi]
           ok1 == RenderOk(file, "enum", enumFails)
           ok2 == RenderOk(auxFile, "enum_usertype", utFails)
       IN IF ~ok1
          THEN /\ rendered' = Append(rendered, views[1])
               /\ events' = Append(events, RenderEvent(art, file, FALSE))
               /\ disk' = Written(disk, file, "enum", FALSE)
               /\ Return(Wrap(RenderError(file, "enum", enumFails), <<"b","u","i","l","d"," ","w","r","i","t","e"," ","t","y","p","e">>), deferred)
               /\ yi' = yi
          ELSE /\ rendered' = rendered \o views
               /\ events' = events \o <<RenderEvent(art, file, TRUE),
                                        RenderEvent(utArt, auxFile, ok2)>>
               /\ disk' = Written(Written(disk, file, "enum", TRUE),
                                  auxFile, "enum_usertype", ok2)
               /\ IF ok2 THEN Continue("loop") /\ yi' = yi + 1
                  ELSE /\ Return(Wrap(RenderError(auxFile, "enum_usertype", utFails),
                                      <<"b","u","i","l","d"," ","w","r","i","t","e"," ","t","y","p","e">>), deferred)
                       /\ yi' = yi
  /\ UNCHANGED <<inputs, clock, view, ti, file, auxFile, deferred, run, prev>>

HibernateReturnNil ==
  /\ gen = "hibernate" /\ AtTypes /\ yi > Len(ins.Types)
  /\ Return(NilError, deferred)
  /\ UNCHANGED <<inputs, clock, view, ti, yi, file, auxFile, deferred, disk,
                 events, rendered, run, prev>>

(***************************************************************************)
(* ProtoBuf.Build                                                          *)
(***************************************************************************)
ProtoBufLoadTemplates ==
  /\ gen = "protobuf" /\ pc = "start"
  /\ \E ok \in BOOLEAN : pc' = IF ok THEN "loop" ELSE "panicked"
  /\ UNCHANGED <<inputs, clock, view, ti, yi, file, auxFile, deferred, closed,
                 disk, events, err, rendered, run, prev>>

ProtoBufSkipTable ==
  /\ gen = "protobuf" /\ AtTables
  /\ contains(config.IgnoreTables, ins.Tables[ti].Name)
  /\ ti' = ti + 1
  /\ UNCHANGED <<inputs, clock, view, pc, yi, file, auxFile, deferred, closed,
                 disk, events, err, rendered, run, prev>>

ProtoBufCreateTableFile ==
  /\ gen = "protobuf" /\ AtTables
  /\ ~contains(config.IgnoreTables, ins.Tables[ti].Name)
  /\ \E ok \in BOOLEAN :
       LET path == OutputPath(ProtoBufTableFileName(ins.Tables[ti]))
           h == Handle(path, ok)
       IN /\ file' = h
          /\ disk' = IF ok THEN Created(path) ELSE disk
          /\ deferred' = Append(deferred, h)
          /\ events' = Append(events, CreateEvent([kind |-> "table", idx |-> ti], h))
          /\ IF ok THEN Continue("buildTable")
             ELSE Return(Wrap(OpenError(path), <<"b","u","i","l","d"," ","c","r","e","a","t","e"," ","f","i","l","e">>), Append(deferred, h))
  /\ UNCHANGED <<inputs, clock, view, ti, yi, auxFile, rendered, run, prev>>

ProtoBufBuildTable ==
  /\ gen = "protobuf" /\ pc = "buildTable"
  /\ \E execFails \in BOOLEAN :
       LET ok == RenderOk(file, "message", execFails)
       IN /\ rendered' = Append(rendered, ProtoBufTableView(ins.Tables[ti]))
          /\ events' = Append(events, RenderEvent([kind |-> "table", idx |-> ti], file, ok))
          /\ disk' = Written(disk, file, "message", ok)
          /\ IF ok THEN Continue("loop") /\ ti' = ti + 1
             ELSE /\ Return(Wrap(RenderError(file, "message", execFails),
                                 <<"b","u","i","l","d"," ","w","r","i","t","e"," ","t","a","b","l","e">>), deferred)
                  /\ ti' = ti
  /\ UNCHANGED <<inputs, clock, view, yi, file, auxFile, deferred, run, prev>>

ProtoBufCreateEnumFile ==
  /\ gen = "protobuf" /\ AtTypes
  /\ \E ok \in BOOLEAN :
       LET path == OutputPath(ProtoBufEnumFileName)
           h == Handle(path, ok)
       IN /\ file' = h
          /\ disk' = IF ok THEN Created(path) ELSE disk
          /\ deferred' = Append(deferred, h)
          /\ events' = Append(events, CreateEvent([kind |-> "enums", idx |-> 1], h))
          /\ IF ok THEN Continue("buildType")
             ELSE Return(Wrap(OpenError(path), <<"b","u","i","l","d"," ","c","r","e","a","t","e"," ","f","i","l","e">>), Append(deferred, h))
  /\ UNCHANGED <<inputs, clock, view, ti, yi, auxFile, rendered, run, prev>>

ProtoBufBuildTypeStep ==
  /\ gen = "protobuf" /\ pc = "buildType"
  /\ \E execFails \in BOOLEAN :
       LET ok == RenderOk(file, "enum", execFails)
       IN /\ rendered' = Append(rendered, ProtoBufBuildType(ins.Types))
          /\ events' = Append(events, RenderEvent([kind |-> "enums", idx |-> 1], file, ok))
          /\ disk' = Written(disk, file, "enum", ok)
          /\ IF ok THEN Return(NilError, deferred)
             ELSE Return(Wrap(RenderError(file, "enum", execFails), <<"b","u","i","l","d"," ","w","r","i","t","e"," ","t","y","p","e">>), deferred)
  /\ UNCHANGED <<inputs, clock, view, ti, yi, file, auxFile, deferred, run, prev>>

(***************************************************************************)
(* The environment: the clock, and a second Build on the same schema.      *)
(***************************************************************************)
Tick ==
  /\ clock < MaxClock
  /\ clock' = clock + 1
  /\ UNCHANGED <<inputs, view, buildVars>>

Rerun ==
  /\ pc = "returned" /\ run = 1
  /\ run' = 2
  /\ prev' = [err |-> err, rendered |-> rendered]
  /\ pc' = "start" /\ ti' = 1 /\ yi' = 1
  /\ file' = NoFile /\ auxFile' = NoFile
  /\ deferred' = <<>> /\ closed' = <<>> /\ events' = <<>> /\ rendered' = <<>>
  /\ err' = NoError
  /\ UNCHANGED <<inputs, clock, view, disk>>

\* table, enum-type and column names are unique, and no enum type is named
\* as a table is (spec 3)
NamesUnique(tables, types) ==
  \A i \in DOMAIN tables, j \in DOMAIN types : tables[i].Name # types[j].Name

Init ==
  /\ gen \in {"hibernate", "protobuf"}
  /\ \E tables \in InjSeqs(TablePool, MaxTables), types \in InjSeqs(BuildTypePool, MaxTypes) :
       /\ NamesUnique(tables, types)
       /\ ins = [Tables |-> tables, Types |-> types]
  /\ config \in {SampleConfig(<<>>), SampleConfig(<<<<"f","l","y","w","a","y","_","s","c","h","e","m","a","_","h","i","s","t","o","r","y">>>>)}
  /\ silent \in {{}, {"metamodel"}}
  /\ clock = 0
  /\ view = [fn |-> "none"]
  /\ pc = "start" /\ ti = 1 /\ yi = 1
  /\ file = NoFile /\ auxFile = NoFile
  /\ deferred = <<>> /\ closed = <<>>
  /\ disk = [p \in {} |-> "empty"]
  /\ events = <<>>
  /\ err = NoError
  /\ rendered = <<>>
  /\ run = 1
  /\ prev = [err |-> NoError, rendered |-> <<>>]

Next ==
  \/ HibernateLoadTemplates
  \/ HibernateSkipTable
  \/ HibernateCreateTableFile
  \/ HibernateBuildTable
  \/ HibernateCreateMetaFile
  \/ HibernateBuildMetamodel
  \/ HibernateCreateTypeFile
  \/ HibernateCreateUserTypeFile
  \/ HibernateBuildTypeStep
  \/ HibernateReturnNil
  \/ ProtoBufLoadTemplates
  \/ ProtoBufSkipTable
  \/ ProtoBufCreateTableFile
  \/ ProtoBufBuildTable
  \/ ProtoBufCreateEnumFile
  \/ ProtoBufBuildTypeStep

Spec == Init /\ [][Next]_vars

\* the second Build is followed on the schemas of at most one table
InitTwice == Init /\ Len(ins.Tables) <= 1

NextTwice == Next \/ Tick \/ Rerun

SpecTwice == InitTwice /\ [][NextTwice]_vars

(***************************************************************************)
(* SpecView: the view builders applied to one table and to the enum types. *)
(***************************************************************************)
InitView ==
  /\ gen \in {"hibernate", "protobuf"}
  /\ \E cols \in InjSeqs(ColumnPool, MaxCols), types \in InjSeqs(TypePool, MaxTypes) :
       ins = [Tables |-> <<[Name |-> <<"u","s","e","r">>, Comment |-> <<>>, Columns |-> cols]>>,
              Types |-> types]
  /\ config = SampleConfig(<<>>)
  /\ silent = {}
  /\ clock = 0
  /\ view = [fn |-> "none"]
  /\ pc = "view" /\ ti = 1 /\ yi = 1
  /\ file = NoFile /\ auxFile = NoFile
  /\ deferred = <<>> /\ closed = <<>>
  /\ disk = [p \in {} |-> "empty"]
  /\ events = <<>>
  /\ err = NoError
  /\ rendered = <<>>
  /\ run = 1
  /\ prev = [err |-> NoError, rendered |-> <<>>]

ApplyHibernateMembers ==
  /\ gen = "hibernate" /\ view.fn = "none"
  /\ view' = [fn |-> "members", out |-> HibernateMembers(ins.Tables[1])]
  /\ UNCHANGED <<inputs, clock, buildVars>>

ApplyHibernateMetamodel ==
  /\ gen = "hibernate" /\ view.fn = "none"
  /\ view' = [fn |-> "metamodel", out |-> HibernateMetamodel(ins.Tables[1])]
  /\ UNCHANGED <<inputs, clock, buildVars>>

ApplyHibernateAccessor ==
  /\ gen = "hibernate" /\ view.fn = "none"
  /\ \E failAt \in 0..(2 * Len(ins.Tables[1].Columns)) :
       view' = [fn |-> "accessor", out |-> HibernateAccessor(ins.Tables[1], failAt)]
  /\ UNCHANGED <<inputs, clock, buildVars>>

ApplyHibernateBuildType ==
  /\ gen = "hibernate" /\ view.fn = "none"
  /\ \E i \in DOMAIN ins.Types :
       view' = [fn |-> "enum", typ |-> ins.Types[i], out |-> HibernateBuildType(ins.Types[i])]
  /\ UNCHANGED <<inputs, clock, buildVars>>

ApplyProtoBufMembers ==
  /\ gen = "protobuf" /\ view.fn = "none"
  /\ view' = [fn |-> "members", out |-> ProtoBufMembers(ins.Tables[1])]
  /\ UNCHANGED <<inputs, clock, buildVars>>

ApplyProtoBufBuildType ==
  /\ gen = "protobuf" /\ view.fn = "none"
  /\ view' = [fn |-> "enum", out |-> ProtoBufBuildType(ins.Types)]
  /\ UNCHANGED <<inputs, clock, buildVars>>

NextView ==
  \/ ApplyHibernateMembers
  \/ ApplyHibernateMetamodel
  \/ ApplyHibernateAccessor
  \/ ApplyHibernateBuildType
  \/ ApplyProtoBufMembers
  \/ ApplyProtoBufBuildType

SpecView == InitView /\ [][NextView]_vars

(***************************************************************************)
(* Reading the emitted text back, for the properties below.                *)
(***************************************************************************)
\* the pieces of s between the occurrences of sep
RECURSIVE Split(_, _)
Split(s, sep) ==
  LET i == Index(s, sep)
  IN IF i = 0 THEN <<s>>
     ELSE <<SubSeq(s, 1, i - 1)>> \o Split(SubSeq(s, i + Len(sep), Len(s)), sep)

\* the text of s after the first occurrence of open and before the last character
Argument(s, open) ==
  LET i == Index(s, open) IN SubSeq(s, i + Len(open), Len(s) - 1)

RECURSIVE Atoi(_)
Atoi(s) ==
  IF s = <<>> THEN 0
  ELSE 10 * Atoi(SubSeq(s, 1, Len(s) - 1)) + (IndexIn(s[Len(s)], DigitChars) - 1)

TheColumns == ins.Tables[1].Columns

\* column DataType with the array marker stripped, Array cleared
Element(col) == [col EXCEPT !.DataType = RemoveFirst(col.DataType, <<"[","]">>), !.Array = FALSE]

\* the enum members Hibernate emitted, one per value
HibernateEmitted == Split(SubSeq(view.out[1].data.members, 1, Len(view.out[1].data.members) - 1), <<","," ">>)

\* the enum values ProtoBuf emitted for the i-th type, one per value
ProtoBufEmitted(i) ==
  LET v == view.out.data.members[i].Values
  IN Split(SubSeq(v, 3, Len(v)), <<"\n", " ", " ">>)

(***************************************************************************)
(* C6: every per-column sequence (Hibernate members, metamodel entries,    *)
(* getter/setter accessors; ProtoBuf members) has exactly one entry per    *)
(* column (a getter/setter pair for accessors), in the order of            *)
(* Table.Columns; the ProtoBuf field number of the i-th column is i.       *)
(***************************************************************************)
C6_ColumnOrder ==
  /\ (view.fn \in {"members", "metamodel"}) =>
       /\ Len(view.out) = Len(TheColumns)
       /\ \A i \in DOMAIN TheColumns :
            view.out[i].Name = SnakeToLowerCamel(TheColumns[i].Name)
  /\ (view.fn = "members" /\ gen = "protobuf") =>
       \A i \in DOMAIN TheColumns : view.out[i].Index = i
  /\ (view.fn = "accessor" /\ ~view.out.fatal) =>
       /\ Len(view.out.ret) = 2 * Len(TheColumns)
       /\ \A i \in DOMAIN TheColumns :
            /\ view.out.ret[2 * i - 1].tmpl = "getter"
            /\ view.out.ret[2 * i - 1].data.name = SnakeToLowerCamel(TheColumns[i].Name)
            /\ view.out.ret[2 * i].tmpl = "setter"
            /\ view.out.ret[2 * i].data.name = SnakeToLowerCamel(TheColumns[i].Name)

C6_Witness ==
  /\ gen = "protobuf" /\ view.fn = "members"
  /\ Len(TheColumns) >= 2 /\ Len(view.out) >= 2

C8_ArrayWraps ==
  (view.fn = "members") =>
    \A i \in DOMAIN TheColumns :
      TheColumns[i].Array =>
        view.out[i].Type =
          IF gen = "hibernate"
          THEN <<"L","i","s","t","<">> \o HibernateConvertType(Element(TheColumns[i])) \o <<">">>
          ELSE <<"r","e","p","e","a","t","e","d"," ">> \o ProtoBufConvertType(Element(TheColumns[i]))

(***************************************************************************)
(* Reading Build's history, for the properties below.                      *)
(***************************************************************************)
Terminated == pc \in {"returned", "exited", "panicked"}

\* the position in schema order of the table or enum type an artifact is of
Ord(art) ==
  IF art.kind \in {"table", "meta"} THEN art.idx ELSE Len(ins.Tables) + art.idx

EntityName(art) ==
  IF art.kind \in {"table", "meta"} THEN ins.Tables[art.idx].Name
  ELSE IF art.kind = "enums" THEN <<>>
  ELSE ins.Types[art.idx].Name

\* whether the error's text holds the entity's name, as it is or in the form
\* the file names have it: the text is the Wrap message, then the cause, and
\* of the causes only a failed open's holds more than the template's name.
\* ProtoBuf's enum.proto is of all the enum types: nothing is asked of it.
ErrorNames(e, art) ==
  \/ art.kind = "enums"
  \/ Contains(e.msg, EntityName(art))
  \/ Contains(e.msg, SnakeToUpperCamel(EntityName(art)))
  \/ /\ e.cause.kind = "open"
     /\ Contains(e.cause.path, SnakeToUpperCamel(EntityName(art)))

Ignored(i) == contains(config.IgnoreTables, ins.Tables[i].Name)

FilesPerTable == IF gen = "hibernate" THEN 2 ELSE 1

\* the files of table i this Build created
FilesOf(i) ==
  {k \in DOMAIN events :
     /\ events[k].op = "create" /\ events[k].ok
     /\ events[k].art.kind \in {"table", "meta"} /\ events[k].art.idx = i}

AllNames ==
  [i \in DOMAIN ins.Tables |-> ins.Tables[i].Name]
  \o [j \in DOMAIN ins.Types |-> ins.Types[j].Name]

\* names pairwise distinct, and still so after UpperCamel
NamesDistinct ==
  \A i, j \in DOMAIN AllNames :
    i # j => /\ AllNames[i] # AllNames[j]
             /\ SnakeToUpperCamel(AllNames[i]) # SnakeToUpperCamel(AllNames[j])

\* no UpperCamel name is a table's UpperCamel name followed by an underscore,
\* nor an enum type's followed by UserType
NoSuffixClash ==
  \A i \in DOMAIN AllNames :
    /\ \A t \in DOMAIN ins.Tables :
         SnakeToUpperCamel(AllNames[i]) # SnakeToUpperCamel(ins.Tables[t].Name) \o <<"_">>
    /\ \A y \in DOMAIN ins.Types :
         SnakeToUpperCamel(AllNames[i]) # SnakeToUpperCamel(ins.Types[y].Name) \o <<"U","s","e","r","T","y","p","e">>

\* no two files this Build created are at the same path
PathsDistinct ==
  \A k, l \in DOMAIN events :
    (/\ k # l
     /\ events[k].op = "create" /\ events[k].ok
     /\ events[l].op = "create" /\ events[l].ok)
    => events[k].handle.path # events[l].handle.path

(***************************************************************************)
(* C1: in Build of either generator, once a file creation or a render has  *)
(* failed, no file is created or rendered for a table or enum type later   *)
(* in schema order, and every file created before the failure is still on  *)
(* disk.                                                                   *)
(***************************************************************************)
C1_AbortOnFirstFailure ==
  \A f \in DOMAIN events :
    ~events[f].ok =>
      /\ \A k \in DOMAIN events :
           (k > f /\ events[k].op \in {"create", "render"})
           => Ord(events[k].art) <= Ord(events[f].art)
      /\ \A k \in DOMAIN events :
           (k < f /\ events[k].op = "create" /\ events[k].ok)
           => events[k].handle.path \in DOMAIN disk

(***************************************************************************)
(* C2: Build returns nil only if every file creation and every template    *)
(* render succeeded; in particular a failure to create a metamodel file    *)
(* makes Hibernate's Build return a non-nil error.                         *)
(***************************************************************************)
C2_NilOnlyIfAllSucceeded ==
  (pc = "returned" /\ err = NilError) =>
    \A k \in DOMAIN events : events[k].ok

(***************************************************************************)
(* C3: every failure during Build (file creation, table, metamodel,        *)
(* getter/setter or enum render) ends the pass by Build returning an error *)
(* that carries the name of the table or enum type being processed.        *)
(***************************************************************************)
C3_ErrorsReturnedWithEntity ==
  Terminated =>
    \A f \in DOMAIN events :
      ~events[f].ok =>
        /\ pc = "returned"
        /\ err.state = "error"
        /\ ErrorNames(err, events[f].art)

(***************************************************************************)
(* C4: Build creates no file for a table in ignore_tables, and a           *)
(* successful Build creates exactly the files of every other table: two    *)
(* for Hibernate, one for ProtoBuf.                                        *)
(***************************************************************************)
C4_IgnoredAndExact ==
  /\ \A i \in DOMAIN ins.Tables : Ignored(i) => FilesOf(i) = {}
  /\ (pc = "returned" /\ err = NilError) =>
       \A i \in DOMAIN ins.Tables :
         ~Ignored(i) => Cardinality(FilesOf(i)) = FilesPerTable

(***************************************************************************)
(* C5: a second Build on the same schema and configuration hands the       *)
(* renderer the same view models as the first, whenever each runs.         *)
(***************************************************************************)
C5_Idempotent ==
  (run = 2 /\ pc = "returned" /\ err = NilError /\ prev.err = NilError) =>
    rendered = prev.rendered

(***************************************************************************)
(* C9: every file Build opened is closed when Build ends, on every exit    *)
(* path, and a failed open is never rendered into nor closed.              *)
(***************************************************************************)
C9_FilesReleased ==
  /\ Terminated =>
       \A i \in DOMAIN deferred :
         deferred[i].ok => \E j \in DOMAIN closed : closed[j] = deferred[i]
  /\ \A k \in DOMAIN events : events[k].op = "render" => events[k].handle.ok
  /\ \A j \in DOMAIN closed : closed[j].ok

(***************************************************************************)
(* C10 as stated: in one Hibernate Build over a schema whose table and     *)
(* enum type names are pairwise distinct, also after UpperCamel, no two    *)
(* files are created at the same path.                                     *)
(***************************************************************************)
C10_OwnPath ==
  (gen = "hibernate" /\ NamesDistinct) => PathsDistinct

(***************************************************************************)
(* C10 as amended: the same, for the schemas in which moreover no          *)
(* UpperCamel name is a table's UpperCamel name followed by an underscore  *)
(* or an enum type's UpperCamel name followed by UserType.                 *)
(***************************************************************************)
C10_OwnPathNoSuffixClash ==
  (gen = "hibernate" /\ NamesDistinct /\ NoSuffixClash) => PathsDistinct

C10_Witness ==
  /\ gen = "hibernate" /\ NamesDistinct /\ NoSuffixClash
  /\ pc = "returned" /\ err = NilError
  /\ Len(ins.Tables) >= 2 /\ Len(ins.Types) >= 1
  /\ \A i \in DOMAIN ins.Tables : Cardinality(FilesOf(i)) = 2
  /\ Cardinality({k \in DOMAIN events : events[k].op = "create" /\ events[k].ok}) >= 6

=============================================================================
